---------------------------- MODULE Spec2Model ----------------------------
(***************************************************************************)
(* BGW multi-party computation over a prime field: Shamir sharing          *)
(* (src/src/sharing.rs), the arithmetic circuit (src/src/circuit.rs), the  *)
(* per-party protocol engine (src/src/party.rs) and the channel topology   *)
(* that connects the parties (src/src/main.rs).                            *)
(*                                                                         *)
(* Wire ids and party ids are 0-based as in the source.  The scalar field  *)
(* Fr is modelled by the prime field of P elements.                        *)
(***************************************************************************)
EXTENDS Integers, Sequences, FiniteSets, TLC

(***************************************************************************)
(* Field arithmetic (ark_ff operations on Fr).                             *)
(***************************************************************************)
P == 5

Fp == 0..(P - 1)

FAdd(a, b) == (a + b) % P

FSub(a, b) == (a + P - b) % P

FMul(a, b) == (a * b) % P

RECURSIVE FPow(_, _)
FPow(x, j) == IF j = 0 THEN 1 % P ELSE FMul(x, FPow(x, j - 1))

\* Field::inverse of a nonzero element (the callers unwrap it).
FInv(a) == FPow(a, P - 2)

FromU64(i) == i % P

\* Option::None for wire ids and owners.
None == 0 - 1

(***************************************************************************)
(* sharing.rs                                                              *)
(***************************************************************************)
\* (variant) only t coefficients: a polynomial of degree t - 1.
CoefficientsShort(secret, t, rnd) == <<secret>> \o [j \in 1..(t - 1) |-> rnd[j]]

\* (variant) one random value drawn once and pushed t times.
CoefficientsSame(secret, t, rnd) == <<secret>> \o [j \in 1..t |-> rnd[1]]

\* The coefficient vector built by shamir_share: a_0 = secret followed by one
\* random coefficient per iteration of `for _ in 0..t`.  rnd is the sequence of
\* the t values drawn from the random generator.
Coefficients(secret, t, rnd) == <<secret>> \o [j \in 1..t |-> rnd[j]]

RECURSIVE PolyEval(_, _, _)
\* fx += coef_j * x^j for j = 0 .. Len(coefficients) - 1, from index j (0-based).
PolyEval(coefficients, x, j) ==
    IF j >= Len(coefficients) THEN 0
    ELSE FAdd(FMul(coefficients[j + 1], FPow(x, j)), PolyEval(coefficients, x, j + 1))

shamir_share(secret, t, n, rnd) ==
    LET coefficients == Coefficients(secret, t, rnd)
    IN  [i \in 1..n |-> [x |-> FromU64(i), value |-> PolyEval(coefficients, FromU64(i), 0)]]

RECURSIVE LagrangeNum(_, _, _)
\* num *= sj.x over j # i
LagrangeNum(shares, i, j) ==
    IF j > Len(shares) THEN 1 % P
    ELSE IF j = i THEN LagrangeNum(shares, i, j + 1)
    ELSE FMul(shares[j].x, LagrangeNum(shares, i, j + 1))

RECURSIVE LagrangeDenSwapped(_, _, _)
\* (variant) den *= xi - sj.x
LagrangeDenSwapped(shares, i, j) ==
    IF j > Len(shares) THEN 1 % P
    ELSE IF j = i THEN LagrangeDenSwapped(shares, i, j + 1)
    ELSE FMul(FSub(shares[i].x, shares[j].x), LagrangeDenSwapped(shares, i, j + 1))

RECURSIVE LagrangeDen(_, _, _)
\* den *= sj.x - xi over j # i
LagrangeDen(shares, i, j) ==
    IF j > Len(shares) THEN 1 % P
    ELSE IF j = i THEN LagrangeDen(shares, i, j + 1)
    ELSE FMul(FSub(shares[j].x, shares[i].x), LagrangeDen(shares, i, j + 1))

\* One term of the sum: yi * num * den^-1.
LagrangeTerm(shares, i) ==
    FMul(shares[i].value,
         FMul(LagrangeNum(shares, i, 1), FInv(LagrangeDen(shares, i, 1))))

RECURSIVE LagrangeSum(_, _)
LagrangeSum(shares, i) ==
    IF i > Len(shares) THEN 0
    ELSE FAdd(LagrangeTerm(shares, i), LagrangeSum(shares, i + 1))

\* The value shamir_reconstruct yields when it panics on a zero denominator.
DuplicateX == 0 - 1

\* (variant) no is_zero test on the denominator: the sum is returned as it is.
shamir_reconstructUnchecked(shares) == LagrangeSum(shares, 1)

shamir_reconstruct(shares) ==
    IF \E i \in 1..Len(shares) : LagrangeDen(shares, i, 1) = 0
    THEN DuplicateX
    ELSE LagrangeSum(shares, 1)


(***************************************************************************)
(* circuit.rs                                                              *)
(***************************************************************************)
\* A circuit is the Vec<Gate>; the gate with id i is element i + 1.
Circuit_new == <<>>

add_gate(c, gate_type, k, left, right, owner) ==
    Append(c, [id |-> Len(c), gate_type |-> gate_type, c |-> k,
               left |-> left, right |-> right, owner |-> owner])

GateOf(c, id) == c[id + 1]

\* .map(|g| g.id).collect()
IdsOf(gs) == [i \in 1..Len(gs) |-> gs[i].id]

input_wires_by_owner(c, owner) ==
    LET Keep(g) == g.gate_type = "Input" /\ g.owner = owner
    IN  IdsOf(SelectSeq(c, Keep))

output_wires(c) ==
    LET Keep(g) == g.gate_type = "Output"
    IN  IdsOf(SelectSeq(c, Keep))

RECURSIVE dfs(_, _, _)
\* st = [visited, order]; visits left, then right, then pushes the gate.
dfs(c, gate_id, st) ==
    IF st.visited[gate_id] THEN st
    ELSE LET gate == GateOf(c, gate_id)
             s1 == [st EXCEPT !.visited[gate_id] = TRUE]
             s2 == IF gate.left # None THEN dfs(c, gate.left, s1) ELSE s1
             s3 == IF gate.right # None THEN dfs(c, gate.right, s2) ELSE s2
         IN  [s3 EXCEPT !.order = Append(@, gate_id)]

RECURSIVE DfsFrom(_, _, _)
DfsFrom(c, i, st) ==
    IF i >= Len(c) THEN st ELSE DfsFrom(c, i + 1, dfs(c, i, st))

\* (variant) the loop over the gates starts at gate 1.
topological_orderFromOne(c) ==
    DfsFrom(c, 1, [visited |-> [i \in 0..(Len(c) - 1) |-> FALSE], order |-> <<>>]).order

topological_order(c) ==
    DfsFrom(c, 0, [visited |-> [i \in 0..(Len(c) - 1) |-> FALSE], order |-> <<>>]).order

(***************************************************************************)
(* The run: N parties (main.rs) on one circuit.                            *)
(***************************************************************************)
\* Number of parties of the run.
N == 3

\* Threshold: the largest t with 2t + 1 <= n (main.rs runs n = 5 with t = 2).
T == (N - 1) \div 2

\* Cleartext inputs range over 0..MaxInput.
MaxInput == 1

\* The random coefficients Fr::rand returns range over 0..MaxRand.
MaxRand == 2

Parties == 0..(N - 1)

Others(p) == Parties \ {p}

InputVals == {v % P : v \in 0..MaxInput}

\* The sequences of t values that t calls of Fr::rand can return.
RandSeqs(t) == [1..t -> {v % P : v \in 0..MaxRand}]

\* A circuit built with add_gate, as main builds its own:
\*   a (owner 0), b (owner 1), s = a + b, m = s * b, k = 2 * m, r = k + a, Output(r)
TestCircuit ==
    LET c1 == add_gate(Circuit_new, "Input", 0, None, None, 0)
        c2 == add_gate(c1, "Input", 0, None, None, 1)
        c3 == add_gate(c2, "Add", 0, 0, 1, None)
        c4 == add_gate(c3, "Mul", 0, 2, 1, None)
        c5 == add_gate(c4, "ConstMul", 2 % P, 3, None, None)
        c6 == add_gate(c5, "Add", 0, 4, 0, None)
    IN  add_gate(c6, "Output", 0, 5, None, None)

\* Nested multiplication, as the spec's (a * b) * c: the product of the first Mul
\* gate is an operand of the second.
\*   a (owner 0), b (owner 1), m = a * b, r = m * b, Output(r)
NestedCircuit ==
    LET c1 == add_gate(Circuit_new, "Input", 0, None, None, 0)
        c2 == add_gate(c1, "Input", 0, None, None, 1)
        c3 == add_gate(c2, "Mul", 0, 0, 1, None)
        c4 == add_gate(c3, "Mul", 0, 2, 1, None)
    IN  add_gate(c4, "Output", 0, 3, None, None)

\* The circuits a run is checked on.
Circuits == <<TestCircuit, NestedCircuit>>

\* topological_order of each of them.
Orders == [i \in DOMAIN Circuits |-> topological_order(Circuits[i])]

VARIABLES
    circuit,        \* which of Circuits every party holds a clone of
    inputs,         \* wire id -> cleartext value, for the Input wires
    pc,             \* party -> the await its task is suspended at
    shares,         \* party -> Party.shares (wire id -> Share)
    received,       \* party -> input_phase's `received`
    pos,            \* party -> index into topological_order of the gate at hand
    mul_shares,     \* party -> eval_mul's `shares` (the collected MulShares)
    product_value,  \* party -> eval_mul's `product_value` (None outside its scope)
    final_shares,   \* party -> eval_mul's `final_shares`
    collected,      \* party -> output_phase's `collected` (wire id -> Vec<Share>)
    output,         \* party -> the map output_phase returned
    chan,           \* chan[from][to]: messages sent by from, not yet received by to
    closed,         \* closed[from][to]: the forwarder of from -> to has exited
    call            \* the library call under check (pure-function specifications)

vars == <<circuit, inputs, pc, shares, received, pos, mul_shares, product_value,
          final_shares, collected, output, chan, closed, call>>

Gates == Circuits[circuit]

Order == Orders[circuit]

\* An empty HashMap.
EmptyMap == [w \in {} |-> 0]

\* HashMap::insert
Insert(m, k, v) == [w \in (DOMAIN m) \cup {k} |-> IF w = k THEN v ELSE m[w]]

Msg(kind, wire, share) == [kind |-> kind, wire |-> wire, share |-> share]

NoMsgs == [t \in Parties |-> <<>>]

\* A task that has ended has dropped its Party, and with it the inbox receiver.
Terminated == {"done", "panicked", "crashed"}

\* The awaits on rx.recv().
Waiting == {"input_recv", "mul_collect", "reshare_wait", "output_recv"}

InputWires(c) == {c[i].id : i \in {j \in 1..Len(c) : c[j].gate_type = "Input"}}

\* input_phase's `expected`: the Input gates some other party owns.
Expected(c, p) ==
    Cardinality({i \in 1..Len(c) : c[i].gate_type = "Input" /\ c[i].owner # p})

\* Fr::from((self.id + 1) as u64)
MyX(p) == FromU64(p + 1)

\* (variant) the output loop stops one share early.
OutputThresholdShort == T

\* The shares a party must hold for a wire before it reconstructs the output.
OutputThreshold == T + 1

\* The MulShares a party collects before it opens the product.
MulThreshold == 2 * T + 1

RECURSIVE SumValues(_)
SumValues(ss) == IF ss = <<>> THEN 0 ELSE FAdd(Head(ss).value, SumValues(Tail(ss)))

\* (variant) the sum is stored without the division by n.
FinalShareValueNoInv(sum) == sum

\* sum * inv_n
FinalShareValue(sum) == FMul(sum, FInv(FromU64(N)))

(***************************************************************************)
(* party.rs.  A party's task runs from one rx.recv().await to the next     *)
(* without touching anything but its own Party and the channels it sends   *)
(* on (the channels hold 100 messages and never fill here, so a send does  *)
(* not suspend).  The operators below transform a party's local state L;   *)
(* L.out[t] collects the messages sent to peer t on the way.               *)
(***************************************************************************)
Local(p) ==
    [pc |-> pc[p], shares |-> shares[p], received |-> received[p], pos |-> pos[p],
     mul_shares |-> mul_shares[p], product_value |-> product_value[p],
     final_shares |-> final_shares[p], collected |-> collected[p],
     output |-> output[p], out |-> NoMsgs]

\* An expect, unwrap, assert or index that fails: the task panics and the
\* locals of the call it was in are dropped.
Panicked(L) ==
    [L EXCEPT !.pc = "panicked", !.received = 0, !.mul_shares = <<>>,
              !.product_value = None, !.final_shares = <<>>, !.collected = EmptyMap]

\* tx.send(msgOf[t]) for every peer t # p.
Send(p, L, msgOf) ==
    [L EXCEPT !.out = [t \in Parties |->
                         IF t = p THEN L.out[t] ELSE L.out[t] \o msgOf[t]]]

\* (variant) every peer is sent the sender's own share, shares[self.id].
input_phase_shareOwnToAll(p, L, rnds) ==
    LET wires == input_wires_by_owner(Gates, p)
        sh(k) == shamir_share(inputs[wires[k]], T, N, rnds[k])
        own == [w \in (DOMAIN L.shares) \cup {wires[k] : k \in 1..Len(wires)} |->
                  IF \E k \in 1..Len(wires) : wires[k] = w
                  THEN sh(CHOOSE k \in 1..Len(wires) : wires[k] = w)[p + 1]
                  ELSE L.shares[w]]
        msgOf == [t \in Parties |->
                    [k \in 1..Len(wires) |-> Msg("InputShare", wires[k], sh(k)[p + 1])]]
    IN  IF \E k \in 1..Len(wires) : wires[k] \notin DOMAIN inputs
        THEN Panicked(L)
        ELSE Send(p, [L EXCEPT !.pc = "input_recv", !.shares = own], msgOf)

\* input_phase, "Share owned inputs": one shamir_share per owned wire (rnds[k]
\* are the coefficients drawn for the k-th), the own share stored, the others sent.
input_phase_share(p, L, rnds) ==
    LET wires == input_wires_by_owner(Gates, p)
        sh(k) == shamir_share(inputs[wires[k]], T, N, rnds[k])
        own == [w \in (DOMAIN L.shares) \cup {wires[k] : k \in 1..Len(wires)} |->
                  IF \E k \in 1..Len(wires) : wires[k] = w
                  THEN sh(CHOOSE k \in 1..Len(wires) : wires[k] = w)[p + 1]
                  ELSE L.shares[w]]
        msgOf == [t \in Parties |->
                    [k \in 1..Len(wires) |-> Msg("InputShare", wires[k], sh(k)[t + 1])]]
    IN  IF \E k \in 1..Len(wires) : wires[k] \notin DOMAIN inputs
        THEN Panicked(L)
        ELSE Send(p, [L EXCEPT !.pc = "input_recv", !.shares = own], msgOf)

\* (variant) every message taken counts as received, whatever its kind.
on_input_recvCountAll(L, m) ==
    IF m.kind = "InputShare"
    THEN [L EXCEPT !.shares = Insert(@, m.wire, m.share), !.received = @ + 1]
    ELSE [L EXCEPT !.received = @ + 1]

\* input_phase, the body of `while received < expected` on message m: an
\* InputShare is stored and counted, any other message is taken and not used.
on_input_recv(L, m) ==
    IF m.kind = "InputShare"
    THEN [L EXCEPT !.shares = Insert(@, m.wire, m.share), !.received = @ + 1]
    ELSE L

eval_add(s1, s2) == [x |-> s1.x, value |-> FAdd(s1.value, s2.value)]

eval_const_mul(s1, c) == [x |-> s1.x, value |-> FMul(s1.value, c)]

RECURSIVE RunLocal(_, _, _, _)
\* evaluate_circuit from gate order[i] on, up to the next Mul gate or the end of
\* the order: the gates that need no communication.  ok is FALSE where an
\* assert, unwrap or index panics.
RunLocal(c, order, sh, i) ==
    IF i > Len(order) THEN [ok |-> TRUE, shares |-> sh, pos |-> i]
    ELSE LET gate == GateOf(c, order[i])
             fail == [ok |-> FALSE, shares |-> sh, pos |-> i]
         IN  CASE gate.gate_type = "Input" ->
                    IF gate.id \in DOMAIN sh THEN RunLocal(c, order, sh, i + 1) ELSE fail
               [] gate.gate_type = "Add" ->
                    IF /\ gate.left \in DOMAIN sh
                       /\ gate.right \in DOMAIN sh
                       /\ sh[gate.left].x = sh[gate.right].x
                    THEN RunLocal(c, order,
                                  Insert(sh, gate.id, eval_add(sh[gate.left], sh[gate.right])),
                                  i + 1)
                    ELSE fail
               [] gate.gate_type = "ConstMul" ->
                    IF gate.left \in DOMAIN sh
                    THEN RunLocal(c, order,
                                  Insert(sh, gate.id, eval_const_mul(sh[gate.left], gate.c)),
                                  i + 1)
                    ELSE fail
               [] gate.gate_type = "Output" ->
                    IF gate.left \in DOMAIN sh
                    THEN RunLocal(c, order, Insert(sh, gate.id, sh[gate.left]), i + 1)
                    ELSE fail
               [] gate.gate_type = "Mul" -> [ok |-> TRUE, shares |-> sh, pos |-> i]

\* output_phase's first loop: collected[w] starts with the own share of w.
RECURSIVE OwnCollected(_, _, _)
OwnCollected(ws, sh, col) ==
    IF ws = <<>> THEN col
    ELSE LET w == Head(ws)
             old == IF w \in DOMAIN col THEN col[w] ELSE <<>>
         IN  OwnCollected(Tail(ws), sh, Insert(col, w, Append(old, sh[w])))

\* output_phase up to its receive loop: every output wire's share is sent to
\* every peer and put into collected.
output_phase_send(p, L) ==
    LET outs == output_wires(Gates)
        msgOf == [t \in Parties |->
                    [k \in 1..Len(outs) |-> Msg("OutputShare", outs[k], L.shares[outs[k]])]]
    IN  IF \E k \in 1..Len(outs) : outs[k] \notin DOMAIN L.shares
        THEN Panicked(L)
        ELSE Send(p, [L EXCEPT !.pc = "output_recv",
                               !.collected = OwnCollected(outs, L.shares, EmptyMap)],
                  msgOf)

\* eval_mul steps 1 and 2: the local product is sent to every peer as MulShare.
eval_mul_start(p, L) ==
    LET gate == GateOf(Gates, Order[L.pos])
    IN  IF ~(/\ gate.left \in DOMAIN L.shares
             /\ gate.right \in DOMAIN L.shares
             /\ L.shares[gate.left].x = L.shares[gate.right].x)
        THEN Panicked(L)
        ELSE LET s1 == L.shares[gate.left]
                 s2 == L.shares[gate.right]
                 local_product == [x |-> s1.x, value |-> FMul(s1.value, s2.value)]
             IN  Send(p, [L EXCEPT !.pc = "mul_collect",
                                   !.mul_shares = <<local_product>>],
                      [t \in Parties |-> <<Msg("MulShare", gate.id, local_product)>>])

\* evaluate_circuit from the gate at L.pos: the local gates, then either eval_mul
\* on the next Mul gate, or the return to main, which calls output_phase.
evaluate_circuit(p, L) ==
    LET r == RunLocal(Gates, Order, L.shares, L.pos)
        L1 == [L EXCEPT !.shares = r.shares, !.pos = r.pos]
    IN  IF ~r.ok THEN Panicked(L1)
        ELSE IF r.pos > Len(Order) THEN output_phase_send(p, L1)
        ELSE eval_mul_start(p, L1)

\* (variant) the wire id of the MulShare is not looked at.
on_mul_collectAnyWire(L, m) ==
    IF /\ m.kind = "MulShare"
       /\ ~\E i \in 1..Len(L.mul_shares) : L.mul_shares[i].x = m.share.x
    THEN [L EXCEPT !.mul_shares = Append(@, m.share)]
    ELSE L

\* eval_mul step 3, the body of `while shares.len() < 2 * self.t + 1` on message
\* m: a MulShare for this wire with a new x is pushed, any other message is
\* taken and not used.
on_mul_collect(L, m) ==
    IF /\ m.kind = "MulShare"
       /\ m.wire = Order[L.pos]
       /\ ~\E i \in 1..Len(L.mul_shares) : L.mul_shares[i].x = m.share.x
    THEN [L EXCEPT !.mul_shares = Append(@, m.share)]
    ELSE L

\* (variant) no degree reduction: the product is shared afresh with degree 2t.
eval_mul_reshareNoReduction(p, L, rnd) ==
    LET product == shamir_reconstruct(L.mul_shares)
        resharing_shares == shamir_share(product, 2 * T, N, rnd \o rnd)
    IN  IF product = DuplicateX THEN Panicked(L)
        ELSE Send(p, [L EXCEPT !.pc = "reshare_wait",
                               !.product_value = product,
                               !.final_shares = <<resharing_shares[p + 1]>>,
                               !.mul_shares = <<>>],
                  [t \in Parties |->
                      <<Msg("Reshare", Order[L.pos], resharing_shares[t + 1])>>])

\* eval_mul steps 4 to 6: the product is reconstructed, shared afresh with
\* degree t (rnd are the coefficients drawn), and each peer is sent its Reshare.
eval_mul_reshare(p, L, rnd) ==
    LET product == shamir_reconstruct(L.mul_shares)
        resharing_shares == shamir_share(product, T, N, rnd)
    IN  IF product = DuplicateX THEN Panicked(L)
        ELSE Send(p, [L EXCEPT !.pc = "reshare_wait",
                               !.product_value = product,
                               !.final_shares = <<resharing_shares[p + 1]>>,
                               !.mul_shares = <<>>],
                  [t \in Parties |->
                      <<Msg("Reshare", Order[L.pos], resharing_shares[t + 1])>>])

\* eval_mul step 7, the body of `while final_shares.len() < self.n` on message m:
\* a Reshare for this wire at the own x is pushed unless a share with the same x
\* and value is already held; any other message is ignored.
on_reshare_wait(p, L, m) ==
    IF /\ m.kind = "Reshare"
       /\ m.wire = Order[L.pos]
       /\ m.share.x = MyX(p)
       /\ ~\E i \in 1..Len(L.final_shares) :
              /\ L.final_shares[i].x = m.share.x
              /\ L.final_shares[i].value = m.share.value
    THEN [L EXCEPT !.final_shares = Append(@, m.share)]
    ELSE L

\* (variant) the mean is written over the left operand instead of the gate's
\* own wire.
eval_mul_storeInPlace(p, L) ==
    IF Len(L.final_shares) # N THEN Panicked(L)
    ELSE [L EXCEPT !.shares = Insert(@, GateOf(Gates, Order[L.pos]).left,
                                     [x |-> MyX(p),
                                      value |-> FinalShareValue(SumValues(L.final_shares))]),
                   !.pos = @ + 1,
                   !.pc = "eval",
                   !.product_value = None,
                   !.final_shares = <<>>]

\* (variant) no assert on final_shares.len(): the mean of the shares at hand is
\* stored and evaluate_circuit goes on.
eval_mul_storeNoAssert(p, L) ==
    [L EXCEPT !.shares = Insert(@, Order[L.pos],
                                [x |-> MyX(p),
                                 value |-> FinalShareValue(SumValues(L.final_shares))]),
              !.pos = @ + 1,
              !.pc = "eval",
              !.product_value = None,
              !.final_shares = <<>>]

\* eval_mul step 8, after the loop: the assert on final_shares.len(), then the
\* mean of the n values is stored as the wire's share; evaluate_circuit goes on
\* with the next gate.
eval_mul_store(p, L) ==
    IF Len(L.final_shares) # N THEN Panicked(L)
    ELSE [L EXCEPT !.shares = Insert(@, Order[L.pos],
                                     [x |-> MyX(p),
                                      value |-> FinalShareValue(SumValues(L.final_shares))]),
                   !.pos = @ + 1,
                   !.pc = "eval",
                   !.product_value = None,
                   !.final_shares = <<>>]

\* output_phase, the body of `while collected.values().any(..)` on message m: an
\* OutputShare is pushed under its wire, any other message is not used.
on_output_recv(L, m) ==
    IF m.kind = "OutputShare"
    THEN [L EXCEPT !.collected =
             Insert(@, m.wire,
                    Append(IF m.wire \in DOMAIN L.collected THEN L.collected[m.wire]
                           ELSE <<>>, m.share))]
    ELSE L

\* output_phase after the loop: every collected wire is reconstructed and the
\* map returned; main prints it and the task ends.
output_phase_reconstruct(L) ==
    LET res == [w \in DOMAIN L.collected |-> shamir_reconstruct(L.collected[w])]
    IN  IF \E w \in DOMAIN res : res[w] = DuplicateX THEN Panicked(L)
        ELSE [L EXCEPT !.output = res, !.pc = "done", !.collected = EmptyMap]

RECURSIVE Run(_, _, _)
\* The task runs on from L until it is suspended in a recv whose loop condition
\* still holds, or it ends.
Run(p, L, rnd) ==
    CASE L.pc = "input_recv" /\ L.received >= Expected(Gates, p) ->
            Run(p, [L EXCEPT !.pc = "eval", !.pos = 1, !.received = 0], rnd)
      [] L.pc = "eval" -> Run(p, evaluate_circuit(p, L), rnd)
      [] L.pc = "mul_collect" /\ Len(L.mul_shares) >= MulThreshold ->
            Run(p, eval_mul_reshare(p, L, rnd), rnd)
      [] L.pc = "reshare_wait" /\ Len(L.final_shares) >= N ->
            Run(p, eval_mul_store(p, L), rnd)
      [] /\ L.pc = "output_recv"
         /\ \A w \in DOMAIN L.collected : Len(L.collected[w]) >= OutputThreshold ->
            output_phase_reconstruct(L)
      [] OTHER -> L

\* The coefficient draws the run from L makes: those of the one shamir_share
\* of eval_mul when L has the MulShares it needs (with t = 0 nothing is drawn).
Draws(L) ==
    IF L.pc = "mul_collect" /\ Len(L.mul_shares) >= MulThreshold
    THEN RandSeqs(T)
    ELSE {[j \in 1..T |-> 0]}

(***************************************************************************)
(* Channels (main.rs): one mpsc channel per ordered pair, forwarded into   *)
(* the receiver's inbox by a task of its own.  A receive takes the next    *)
(* message of any one sender: the order across senders is the forwarders'. *)
(***************************************************************************)
Deliver(ch, p, msgOf) ==
    [f \in Parties |-> [t \in Parties |->
        IF f = p /\ t # p THEN ch[f][t] \o msgOf[t] ELSE ch[f][t]]]

\* The party's variables take the values of L.
Commit(p, L) ==
    /\ pc' = [pc EXCEPT ![p] = L.pc]
    /\ shares' = [shares EXCEPT ![p] = L.shares]
    /\ received' = [received EXCEPT ![p] = L.received]
    /\ pos' = [pos EXCEPT ![p] = L.pos]
    /\ mul_shares' = [mul_shares EXCEPT ![p] = L.mul_shares]
    /\ product_value' = [product_value EXCEPT ![p] = L.product_value]
    /\ final_shares' = [final_shares EXCEPT ![p] = L.final_shares]
    /\ collected' = [collected EXCEPT ![p] = L.collected]
    /\ output' = [output EXCEPT ![p] = L.output]

\* The step of party p ends in L, ch being the channels once it has taken its
\* message.  Every tx.send(..).await.expect(..) succeeds unless the peer's
\* channel is closed: then the task panics, after the sends to the peers its
\* loop served before (any of the others: the loops iterate a HashMap).
Finish(p, ch, L) ==
    LET bad == {t \in Others(p) : closed[p][t] /\ L.out[t] # <<>>}
    IN  IF bad = {}
        THEN chan' = Deliver(ch, p, L.out) /\ Commit(p, L)
        ELSE /\ \E S \in SUBSET (Others(p) \ bad) :
                  chan' = Deliver(ch, p, [t \in Parties |->
                                            IF t \in S THEN L.out[t] ELSE <<>>])
             /\ Commit(p, Panicked(L))

\* The task starts: input_phase shares the owned inputs and runs on.
ShareInputs(p) ==
    /\ pc[p] = "input_share"
    /\ \E rnds \in [1..Len(input_wires_by_owner(Gates, p)) -> RandSeqs(T)] :
          LET L == input_phase_share(p, Local(p), rnds)
          IN  \E rnd \in Draws(L) : Finish(p, chan, Run(p, L, rnd))
    /\ UNCHANGED <<circuit, inputs, closed, call>>

\* rx.recv() in input_phase returns the next message of sender q.
RecvInputShare(p, q) ==
    /\ pc[p] = "input_recv"
    /\ q # p /\ chan[q][p] # <<>>
    /\ LET L == on_input_recv(Local(p), Head(chan[q][p]))
       IN  \E rnd \in Draws(L) :
              Finish(p, [chan EXCEPT ![q][p] = Tail(@)], Run(p, L, rnd))
    /\ UNCHANGED <<circuit, inputs, closed, call>>

\* rx.recv() in eval_mul step 3 returns the next message of sender q.
RecvMulShare(p, q) ==
    /\ pc[p] = "mul_collect"
    /\ q # p /\ chan[q][p] # <<>>
    /\ LET L == on_mul_collect(Local(p), Head(chan[q][p]))
       IN  \E rnd \in Draws(L) :
              Finish(p, [chan EXCEPT ![q][p] = Tail(@)], Run(p, L, rnd))
    /\ UNCHANGED <<circuit, inputs, closed, call>>

\* rx.recv() in eval_mul step 7 returns the next message of sender q.
RecvReshare(p, q) ==
    /\ pc[p] = "reshare_wait"
    /\ q # p /\ chan[q][p] # <<>>
    /\ LET L == on_reshare_wait(p, Local(p), Head(chan[q][p]))
       IN  \E rnd \in Draws(L) :
              Finish(p, [chan EXCEPT ![q][p] = Tail(@)], Run(p, L, rnd))
    /\ UNCHANGED <<circuit, inputs, closed, call>>

\* rx.recv() in output_phase returns the next message of sender q.
RecvOutputShare(p, q) ==
    /\ pc[p] = "output_recv"
    /\ q # p /\ chan[q][p] # <<>>
    /\ LET L == on_output_recv(Local(p), Head(chan[q][p]))
       IN  \E rnd \in Draws(L) :
              Finish(p, [chan EXCEPT ![q][p] = Tail(@)], Run(p, L, rnd))
    /\ UNCHANGED <<circuit, inputs, closed, call>>

\* Whether party q can move without a timer: it has not started yet, or it is
\* suspended in a recv and some sender has a message for it.
CanStep(q) ==
    \/ pc[q] = "input_share"
    \/ pc[q] \in Waiting /\ \E r \in Others(q) : chan[r][q] # <<>>

\* No party can move: nothing is on its way to a party that would read it.
Quiescent == \A q \in Parties : ~CanStep(q)

\* eval_mul step 7, timeout(Duration::from_secs(10), recv) expires: the loop
\* breaks with fewer than n shares and the assert_eq on final_shares.len()
\* panics.  Ten seconds pass without a message only once nothing is on its way:
\* the timer fires when no party can move.  (recv never returns None: the party
\* holds a sender of its own inbox in self.tx.)
ReshareTimeout(p) ==
    /\ pc[p] = "reshare_wait"
    /\ Quiescent
    /\ Commit(p, eval_mul_store(p, Local(p)))
    /\ UNCHANGED <<circuit, inputs, chan, closed, call>>

\* The forwarder of q -> p takes a message and finds p's inbox dropped
\* (central_tx_clone.send fails): it exits, which drops the pair's receiver
\* together with what it still buffered.
ForwardFail(q, p) ==
    /\ q # p
    /\ pc[p] \in Terminated
    /\ chan[q][p] # <<>>
    /\ ~closed[q][p]
    /\ closed' = [closed EXCEPT ![q][p] = TRUE]
    /\ chan' = [chan EXCEPT ![q][p] = <<>>]
    /\ UNCHANGED <<circuit, inputs, pc, shares, received, pos, mul_shares,
                   product_value, final_shares, collected, output, call>>

\* One party's task stops where it stands (main reports "Party .. failed").
Crash(p) ==
    /\ pc[p] \notin Terminated
    /\ \A q \in Parties : pc[q] # "crashed"
    /\ Commit(p, [Panicked(Local(p)) EXCEPT !.pc = "crashed"])
    /\ UNCHANGED <<circuit, inputs, chan, closed, call>>

\* The state main builds before it spawns the parties.
Spawned ==
    /\ pc = [p \in Parties |-> "input_share"]
    /\ shares = [p \in Parties |-> EmptyMap]
    /\ received = [p \in Parties |-> 0]
    /\ pos = [p \in Parties |-> 0]
    /\ mul_shares = [p \in Parties |-> <<>>]
    /\ product_value = [p \in Parties |-> None]
    /\ final_shares = [p \in Parties |-> <<>>]
    /\ collected = [p \in Parties |-> EmptyMap]
    /\ output = [p \in Parties |-> EmptyMap]
    /\ chan = [f \in Parties |-> [t \in Parties |-> <<>>]]
    /\ closed = [f \in Parties |-> [t \in Parties |-> FALSE]]

NoCall == [stage |-> "none"]

Init ==
    /\ circuit = 1
    /\ inputs \in [InputWires(Circuits[circuit]) -> InputVals]
    /\ Spawned
    /\ call = NoCall

PartyStep(p) ==
    \/ ShareInputs(p)
    \/ ReshareTimeout(p)
    \/ \E q \in Parties : RecvInputShare(p, q)
    \/ \E q \in Parties : RecvMulShare(p, q)
    \/ \E q \in Parties : RecvReshare(p, q)
    \/ \E q \in Parties : RecvOutputShare(p, q)

Next == \E p \in Parties : PartyStep(p)

\* A run of N honest parties.
Spec == Init /\ [][Next]_vars

\* A run in which one party may stop at any point.
NextCrash ==
    \/ Next
    \/ \E p \in Parties : Crash(p)
    \/ \E q \in Parties : \E p \in Parties : ForwardFail(q, p)

\* The crash runs start from one assignment of the inputs.
InitCrash ==
    /\ circuit = 1
    /\ inputs = [w \in InputWires(Circuits[1]) |-> 1 % P]
    /\ Spawned
    /\ call = NoCall

SpecCrash == InitCrash /\ [][NextCrash]_vars

\* A run of N honest parties on the nested multiplication, inputs a = 2, b = 3.
InitNested ==
    /\ circuit = 2
    /\ inputs = (0 :> 2 % P) @@ (1 :> 3 % P)
    /\ Spawned
    /\ call = NoCall

SpecNested == InitNested /\ [][Next]_vars

(***************************************************************************)
(* Calls of the sharing library on their own: shamir_share on arguments    *)
(* drawn by Init, then shamir_reconstruct on some of the shares.           *)
(***************************************************************************)
\* The calls are checked for n <= MaxShares (and n < P: the x-coordinates
\* 1..n are distinct nonzero field elements).
MaxShares == 4

runVars == <<circuit, inputs, pc, shares, received, pos, mul_shares, product_value,
             final_shares, collected, output, chan, closed>>

\* All the sequences t calls of Fr::rand can return.
AllRandSeqs(t) == [1..t -> Fp]

\* The shares at the positions idx (an increasing sequence of indices): a slice
\* or any other selection of the Vec.
Pick(ss, idx) == [k \in 1..Len(idx) |-> ss[idx[k]]]

RECURSIVE Ascending(_, _)
\* The elements of the set I of indices in 1..n, in ascending order.
Ascending(I, n) ==
    IF n = 0 THEN <<>>
    ELSE IF n \in I THEN Append(Ascending(I, n - 1), n) ELSE Ascending(I, n - 1)

InitShamir ==
    /\ circuit = 1
    /\ inputs = [w \in InputWires(Circuits[1]) |-> 0]
    /\ Spawned
    /\ \E n \in 1..MaxShares : \E t \in 0..(n - 1) : \E secret \in Fp :
       \E rnd \in AllRandSeqs(t) :
          /\ n < P
          /\ call = [stage |-> "args", secret |-> secret, t |-> t, n |-> n, rnd |-> rnd,
                     shares |-> <<>>, idx |-> <<>>, result |-> 0]

CallShare ==
    /\ call.stage = "args"
    /\ call' = [call EXCEPT !.stage = "shared",
                            !.shares = shamir_share(call.secret, call.t, call.n, call.rnd)]
    /\ UNCHANGED runVars

CallReconstruct ==
    /\ call.stage = "shared"
    /\ \E I \in SUBSET (1..call.n) :
          call' = [call EXCEPT !.stage = "reconstructed",
                               !.idx = Ascending(I, call.n),
                               !.result = shamir_reconstruct(
                                              Pick(call.shares, Ascending(I, call.n)))]
    /\ UNCHANGED runVars

NextShamir == CallShare \/ CallReconstruct

SpecShamir == InitShamir /\ [][NextShamir]_vars

(***************************************************************************)
(* shamir_reconstruct on lists of shares built by hand: any x, any value,  *)
(* x-coordinates repeated or not.                                          *)
(***************************************************************************)
\* The lists have at most MaxLen shares.
MaxLen == 3

\* Every Share { x, value } over the field.
AnyShare == [x : Fp, value : Fp]

InitReconstruct ==
    /\ circuit = 1
    /\ inputs = [w \in InputWires(Circuits[1]) |-> 0]
    /\ Spawned
    /\ \E k \in 0..MaxLen : \E ss \in [1..k -> AnyShare] :
          call = [stage |-> "list", shares |-> ss, result |-> 0]

CallReconstructList ==
    /\ call.stage = "list"
    /\ call' = [call EXCEPT !.stage = "returned",
                            !.result = shamir_reconstruct(call.shares)]
    /\ UNCHANGED runVars

NextReconstruct == CallReconstructList

SpecReconstruct == InitReconstruct /\ [][NextReconstruct]_vars

(***************************************************************************)
(* Circuits built by hand: Circuit::new, then add_gate with arguments of   *)
(* any kind, then topological_order.                                       *)
(***************************************************************************)
\* A circuit is built of at most MaxGates gates.
MaxGates == 3

GateTypes == {"Input", "Add", "Mul", "ConstMul", "Output"}

\* The left and right arguments of add_gate: None, or Some(id) for a small id,
\* whether or not a gate of that id exists yet.
Refs == {None} \cup (0..(MaxGates - 1))

\* Every Some(id) of the circuit is the id of one of its gates.
RefsInRange(c) ==
    \A i \in 1..Len(c) :
        /\ c[i].left # None => c[i].left < Len(c)
        /\ c[i].right # None => c[i].right < Len(c)

InitCircuit ==
    /\ circuit = 1
    /\ inputs = [w \in InputWires(Circuits[1]) |-> 0]
    /\ Spawned
    /\ call = [stage |-> "built", gates |-> Circuit_new, order |-> <<>>]

CallAddGate ==
    /\ call.stage = "built"
    /\ Len(call.gates) < MaxGates
    /\ \E gate_type \in GateTypes : \E left \in Refs : \E right \in Refs :
          call' = [call EXCEPT !.gates =
                      add_gate(@, gate_type, IF gate_type = "ConstMul" THEN 2 % P ELSE 0,
                               left, right, IF gate_type = "Input" THEN 0 ELSE None)]
    /\ UNCHANGED runVars

\* topological_order on the circuit built so far.  dfs indexes gates[gate_id]
\* for every id it is handed: an id past the end of the Vec panics.
CallTopologicalOrder ==
    /\ call.stage = "built"
    /\ call' = IF RefsInRange(call.gates)
               THEN [call EXCEPT !.stage = "ordered",
                                 !.order = topological_order(call.gates)]
               ELSE [call EXCEPT !.stage = "panicked"]
    /\ UNCHANGED runVars

NextCircuit == CallAddGate \/ CallTopologicalOrder

SpecCircuit == InitCircuit /\ [][NextCircuit]_vars

(***************************************************************************)
(* Step 3 of eval_mul on an inbox of any content: the party holds its      *)
(* local product and takes messages of any kind, wire and share until it   *)
(* opens the product.                                                      *)
(***************************************************************************)
\* At most MaxTaken messages are taken from the inbox.
MaxTaken == 3

\* The Mul gate at hand: the first one of the topological order.
CollectPos == CHOOSE i \in 1..Len(Order) :
                 /\ GateOf(Gates, Order[i]).gate_type = "Mul"
                 /\ \A j \in 1..(i - 1) : GateOf(Gates, Order[j]).gate_type # "Mul"

\* The messages the inbox may hold: MulShare or Reshare, for the wire at hand
\* or for a later one, with a share at any x.
CollectMsgs ==
    {Msg(kind, wire, [x |-> x, value |-> value]) :
        kind \in {"MulShare", "Reshare"},
        wire \in {Order[CollectPos], Order[Len(Order)]},
        x \in Fp, value \in InputVals}

\* The party's state in the loop, call.shares being the Vec `shares`.
CollectLocal ==
    [Local(call.p) EXCEPT !.pc = "mul_collect", !.pos = CollectPos,
                          !.mul_shares = call.shares]

InitCollect ==
    /\ circuit = 1
    /\ inputs = [w \in InputWires(Circuits[1]) |-> 0]
    /\ Spawned
    /\ \E p \in Parties : \E value \in InputVals :
          call = [stage |-> "collecting", p |-> p,
                  local_product |-> [x |-> MyX(p), value |-> value],
                  shares |-> <<[x |-> MyX(p), value |-> value]>>,
                  taken |-> <<>>, product_value |-> None]

\* rx.recv() returns m: the body of the loop, then, once the loop condition
\* fails, steps 4 to 6.
CallMulCollect ==
    /\ call.stage = "collecting"
    /\ Len(call.taken) < MaxTaken
    /\ \E m \in CollectMsgs :
          LET L1 == on_mul_collect(CollectLocal, m)
              L2 == Run(call.p, L1, [j \in 1..T |-> 0])
          IN  call' = [call EXCEPT !.stage = IF L2.pc = "mul_collect"
                                             THEN "collecting" ELSE "opened",
                                   !.shares = L1.mul_shares,
                                   !.taken = Append(@, m),
                                   !.product_value = L2.product_value]
    /\ UNCHANGED runVars

NextCollect == CallMulCollect

SpecCollect == InitCollect /\ [][NextCollect]_vars

(***************************************************************************)
(* Properties.                                                             *)
(***************************************************************************)
OutputWireSet == {output_wires(Gates)[k] : k \in 1..Len(output_wires(Gates))}

RECURSIVE ClearValue(_, _, _)
\* The value of wire w when the circuit is evaluated in the clear over the field.
ClearValue(c, inp, w) ==
    LET gate == GateOf(c, w)
    IN  CASE gate.gate_type = "Input" -> inp[w]
          [] gate.gate_type = "Add" ->
                FAdd(ClearValue(c, inp, gate.left), ClearValue(c, inp, gate.right))
          [] gate.gate_type = "Mul" ->
                FMul(ClearValue(c, inp, gate.left), ClearValue(c, inp, gate.right))
          [] gate.gate_type = "ConstMul" -> FMul(gate.c, ClearValue(c, inp, gate.left))
          [] gate.gate_type = "Output" -> ClearValue(c, inp, gate.left)

RECURSIVE InputsUnder(_, _)
\* The Input wires the value of wire w depends on.
InputsUnder(c, w) ==
    LET gate == GateOf(c, w)
    IN  IF gate.gate_type = "Input" THEN {w}
        ELSE (IF gate.left # None THEN InputsUnder(c, gate.left) ELSE {})
             \cup (IF gate.right # None THEN InputsUnder(c, gate.right) ELSE {})

\* A wire that is neither an Output gate nor the wire an Output gate propagates.
Intermediate(c, w) ==
    /\ GateOf(c, w).gate_type # "Output"
    /\ ~\E i \in 1..Len(c) : c[i].gate_type = "Output" /\ c[i].left = w

\* C1: any two parties that have returned from output_phase hold, for every
\* output wire of the circuit, the same reconstructed value.
C1_Agreement ==
    \A p \in Parties : \A q \in Parties :
        (pc[p] = "done" /\ pc[q] = "done") =>
            \A w \in OutputWireSet :
                /\ w \in DOMAIN output[p]
                /\ w \in DOMAIN output[q]
                /\ output[p][w] = output[q][w]

\* Every party has returned from output_phase with a value for the output wire.
C1_Witness ==
    /\ \A p \in Parties : pc[p] = "done" /\ OutputWireSet \subseteq DOMAIN output[p]
    /\ \E p \in Parties : \E w \in OutputWireSet : output[p][w] # 0

\* C2: the value a party returns from output_phase for an output wire is the
\* value of that wire when the circuit is evaluated in the clear on the inputs
\* (2T + 1 <= N holds of every run).
C2_Correctness ==
    \A p \in Parties :
        pc[p] = "done" =>
            /\ MulThreshold <= N
            /\ \A w \in OutputWireSet :
                  /\ w \in DOMAIN output[p]
                  /\ output[p][w] = ClearValue(Gates, inputs, w)

\* A party has returned the clear value of the output, on inputs for which
\* neither the output nor the product of the Mul gate is zero.
C2_Witness ==
    \E p \in Parties : \E w \in OutputWireSet :
        /\ pc[p] = "done"
        /\ output[p][w] = ClearValue(Gates, inputs, w)
        /\ output[p][w] # 0
        /\ \E i \in 1..Len(Gates) :
              Gates[i].gate_type = "Mul" /\ ClearValue(Gates, inputs, Gates[i].id) # 0

\* A party suspended in a recv that has no timer, with nothing on its way to it
\* and no party able to move: it stays there for good.
WaitsForever(p) ==
    /\ Quiescent
    /\ pc[p] \in {"input_recv", "mul_collect", "output_recv"}

\* C3: when all N parties are honest and running, every party returns from
\* output_phase: no party aborts and no party is left waiting for good.
C3_Completion ==
    \A p \in Parties : pc[p] # "panicked" /\ ~WaitsForever(p)

\* C4: no party is in the evaluation phase (or beyond) while some party has not
\* finished its input phase, and no party is in the output phase (or beyond)
\* while some party has not finished evaluation.
C4_PhaseSeparation ==
    \A p \in Parties : \A q \in Parties :
        /\ pc[p] \in {"mul_collect", "reshare_wait", "output_recv", "done"}
              => pc[q] \notin {"input_share", "input_recv"}
        /\ pc[p] \in {"output_recv", "done"}
              => pc[q] \notin {"input_share", "input_recv", "mul_collect", "reshare_wait"}

\* The position of wire w in the topological order.
PosOf(w) == CHOOSE i \in 1..Len(Order) : Order[i] = w

\* Message m, taken by party p in its present receive loop, is what a later
\* receive loop of p waits for.
ForLaterStep(p, m) ==
    CASE pc[p] = "input_recv" -> m.kind \in {"MulShare", "Reshare", "OutputShare"}
      [] pc[p] = "mul_collect" ->
            \/ m.kind = "OutputShare"
            \/ m.kind = "Reshare" /\ PosOf(m.wire) >= pos[p]
            \/ m.kind = "MulShare" /\ PosOf(m.wire) > pos[p]
      [] pc[p] = "reshare_wait" ->
            \/ m.kind = "OutputShare"
            \/ m.kind \in {"MulShare", "Reshare"} /\ PosOf(m.wire) > pos[p]
      [] OTHER -> FALSE

\* The number of messages on their way to party p.
InboxSize(ch, p) ==
    LET RECURSIVE Sum(_)
        Sum(S) == IF S = {} THEN 0
                  ELSE LET r == CHOOSE r \in S : TRUE
                       IN  Len(ch[r][p]) + Sum(S \ {r})
    IN  Sum(Others(p))

\* C5: a step in which a party takes from its inbox a message that a later
\* receive loop of that party waits for leaves the message available to the
\* party (requeued: a Party has no buffer of its own).
C5_NoNeededMessageDiscarded ==
    [][\A p \in Parties : \A q \in Others(p) :
          (/\ pc[p] \in Waiting
           /\ chan[q][p] # <<>>
           /\ chan'[q][p] = Tail(chan[q][p])
           /\ ForLaterStep(p, Head(chan[q][p])))
          => InboxSize(chan', p) >= InboxSize(chan, p)]_vars

\* C6: once a party has stopped, no surviving party is left waiting in a
\* receive loop for good: each loop that waits on the network ends by a timeout.
C6_PeersTerminate ==
    \A p \in Parties :
        (\E q \in Parties : pc[q] = "crashed") => ~WaitsForever(p)

\* C7: no party's state holds in the clear the value of an intermediate
\* (non-output) wire that depends on other parties' inputs.
C7_NoIntermediateInClear ==
    \A p \in Parties :
        (pc[p] = "reshare_wait" /\ product_value[p] # None) =>
            ~(/\ Intermediate(Gates, Order[pos[p]])
              /\ \E i \in InputsUnder(Gates, Order[pos[p]]) : GateOf(Gates, i).owner # p
              /\ product_value[p] = ClearValue(Gates, inputs, Order[pos[p]]))

\* C8: shamir_reconstruct on any t + 1 or more of the n shares that
\* shamir_share(s, t, n) returned (all n included) gives back s, whatever the
\* random coefficients were.
C8_RoundTrip ==
    (call.stage = "reconstructed" /\ Len(call.idx) >= call.t + 1)
        => call.result = call.secret

\* A nonzero secret recovered from exactly t + 1 of the shares of a polynomial
\* of degree t >= 2 with nonzero coefficients, not the first t + 1 of them.
C8_Witness ==
    /\ call.stage = "reconstructed"
    /\ call.t >= 2
    /\ Len(call.idx) = call.t + 1
    /\ call.idx[1] > 1
    /\ call.secret # 0
    /\ \A j \in 1..call.t : call.rnd[j] # 0
    /\ call.result = call.secret

\* The values of the shares ss at the positions in idx.
ValuesAt(ss, idx) == [k \in 1..Len(idx) |-> ss[idx[k]].value]

\* C9: for a fixed secret and threshold t, at any t of the n share positions,
\* different random coefficients (a_1..a_t) give different t-tuples of share
\* values: the map from the p^t coefficient vectors to the p^t tuples of values
\* is one-to-one, hence onto, for every secret.
C9_PrivacyShape ==
    call.stage = "shared" =>
        \A I \in SUBSET (1..call.n) :
            Cardinality(I) = call.t =>
                \A rnd \in AllRandSeqs(call.t) :
                    rnd # call.rnd =>
                        ValuesAt(shamir_share(call.secret, call.t, call.n, rnd),
                                 Ascending(I, call.n))
                            # ValuesAt(call.shares, Ascending(I, call.n))

\* Shares of a polynomial of degree t >= 2 with more than t + 1 share positions.
C9_Witness ==
    /\ call.stage = "shared"
    /\ call.t >= 2
    /\ call.n > call.t + 1
    /\ Len(call.shares) = call.n
    /\ call.secret # 0

\* C10 as stated: reconstruction from at least one and fewer than t + 1 of the
\* shares never gives the secret.
C10_NeverTheSecret ==
    (/\ call.stage = "reconstructed"
     /\ call.t >= 1
     /\ Len(call.idx) >= 1
     /\ Len(call.idx) < call.t + 1)
        => call.result # call.secret

\* The coefficient vectors for which the shares at idx reconstruct to the secret.
Coinciding(secret, t, n, idx) ==
    {rnd \in AllRandSeqs(t) :
        shamir_reconstruct(Pick(shamir_share(secret, t, n, rnd), idx)) = secret}

\* C10 amended: for at least one and fewer than t + 1 of the shares, the
\* reconstructed value is the secret for exactly one in p of the coefficient
\* vectors (p^(t-1) of the p^t), and differs from it for all the others; from
\* exactly t shares it is the secret exactly when the leading coefficient a_t
\* is zero.
C10_TightnessUpToOneInP ==
    (/\ call.stage = "reconstructed"
     /\ call.t >= 1
     /\ Len(call.idx) >= 1
     /\ Len(call.idx) < call.t + 1)
        => /\ Cardinality(Coinciding(call.secret, call.t, call.n, call.idx)) * P
                = Cardinality(AllRandSeqs(call.t))
           /\ Len(call.idx) = call.t
                => (call.result = call.secret <=> call.rnd[call.t] = 0)

\* Exactly t shares of a polynomial of degree t >= 2 with nonzero leading
\* coefficient, reconstructing to something else than the secret.
C10_Witness ==
    /\ call.stage = "reconstructed"
    /\ call.t >= 2
    /\ Len(call.idx) = call.t
    /\ call.rnd[call.t] # 0
    /\ call.result # call.secret

\* The ids of the Mul gates of the circuit.
MulWires == {Gates[i].id : i \in {j \in 1..Len(Gates) : Gates[j].gate_type = "Mul"}}

\* The shares of wire w the N parties have stored, in the order of the parties.
StoredShares(w) == [i \in 1..N |-> shares[i - 1][w]]

\* The shares ss lie on one polynomial of degree at most t whose value at 0 is s.
OnPolynomial(ss, t, s) ==
    \E a \in [1..t -> Fp] :
        \A i \in 1..Len(ss) : ss[i].value = PolyEval(<<s>> \o a, ss[i].x, 0)

\* C11: once all N parties have completed eval_mul for a Mul gate w = a * b, the
\* N stored shares (p + 1, y_p) lie on one polynomial of degree at most T whose
\* value at 0 is the product of the two operands' values; all N of them, and
\* any T + 1 of them, reconstruct to that product (so that the wire can be an
\* operand of a further Mul gate, as in the nested circuit).
C11_DegreeReduction ==
    \A w \in MulWires :
        (\A p \in Parties : w \in DOMAIN shares[p]) =>
            LET s == FMul(ClearValue(Gates, inputs, GateOf(Gates, w).left),
                          ClearValue(Gates, inputs, GateOf(Gates, w).right))
                ss == StoredShares(w)
            IN  /\ \A i \in 1..N : ss[i].x = FromU64(i)
                /\ OnPolynomial(ss, T, s)
                /\ shamir_reconstruct(ss) = s
                /\ \A I \in SUBSET (1..N) :
                      Cardinality(I) = T + 1 =>
                          shamir_reconstruct(Pick(ss, Ascending(I, N))) = s

\* All N parties have stored their share of a Mul wire one operand of which is
\* the result of an earlier Mul gate; the product is not zero and the shares are
\* not all equal (the polynomial is not constant).
C11_Witness ==
    \E w \in MulWires :
        /\ GateOf(Gates, w).left \in MulWires
        /\ \A p \in Parties : w \in DOMAIN shares[p]
        /\ ClearValue(Gates, inputs, w) # 0
        /\ \E p \in Parties : shares[p][w].value # shares[0][w].value

\* Two of the shares ss have the same x-coordinate.
HasDuplicateX(ss) ==
    \E i \in 1..Len(ss) : \E j \in 1..Len(ss) : i # j /\ ss[i].x = ss[j].x

\* C12: on a non-empty list of shares shamir_reconstruct fails with the
\* duplicate-x error, returning no value, exactly when two shares of the list
\* have the same x-coordinate; otherwise it returns a field element.
C12_DuplicateXIsAnError ==
    (call.stage = "returned" /\ Len(call.shares) >= 1) =>
        /\ call.result = DuplicateX <=> HasDuplicateX(call.shares)
        /\ call.result # DuplicateX => call.result \in Fp

\* Three shares, the first and the last at the same x with different values,
\* the middle one elsewhere: the call has failed.
C12_Witness ==
    /\ call.stage = "returned"
    /\ Len(call.shares) = 3
    /\ call.shares[1].x = call.shares[3].x
    /\ call.shares[1].value # call.shares[3].value
    /\ call.shares[2].x # call.shares[1].x
    /\ call.result = DuplicateX

\* input_phase has returned at party p: evaluate_circuit has been entered.
InputPhaseReturned(p) == pos[p] >= 1

\* C13: when input_phase returns at party p, the keys of p's shares map are
\* exactly the ids of the Input gates of the circuit, its own and the others',
\* and each of these shares has x = p + 1.  (Until the return the map holds
\* Input wires only; the keys added afterwards are the gates evaluate_circuit
\* has gone through.)
C13_InputPhasePostcondition ==
    \A p \in Parties :
        /\ ~InputPhaseReturned(p) => DOMAIN shares[p] \subseteq InputWires(Gates)
        /\ InputPhaseReturned(p) =>
              /\ InputWires(Gates) \subseteq DOMAIN shares[p]
              /\ \A w \in InputWires(Gates) : shares[p][w].x = FromU64(p + 1)
              /\ \A w \in (DOMAIN shares[p]) \ InputWires(Gates) :
                    /\ \E i \in 1..Len(Order) : Order[i] = w
                    /\ PosOf(w) < pos[p]

\* A party that owns no input has returned from input_phase with the shares of
\* both Input wires while another party is still in its input phase.
C13_Witness ==
    \E p \in Parties : \E q \in Parties :
        /\ input_wires_by_owner(Gates, p) = <<>>
        /\ InputPhaseReturned(p)
        /\ InputWires(Gates) \subseteq DOMAIN shares[p]
        /\ Cardinality(InputWires(Gates)) >= 2
        /\ pc[q] = "input_recv"

\* C14: in every step of a run the key set of each party's shares map only
\* grows, and a share that has been written for a wire keeps its value: it is
\* neither overwritten nor removed.
C14_SharesWriteOnce ==
    [][\A p \in Parties : \A w \in DOMAIN shares[p] :
          /\ w \in DOMAIN shares'[p]
          /\ shares'[p][w] = shares[p][w]]_vars

\* A party has gone through the three phases: its map holds a share for every
\* wire of the circuit, written in input_phase, evaluate_circuit and eval_mul.
C14_Witness ==
    \E p \in Parties :
        /\ pc[p] = "done"
        /\ DOMAIN shares[p] = {Gates[i].id : i \in 1..Len(Gates)}
        /\ MulWires # {}

\* Every gate's id is its position in insertion order.
IdIsPosition(c) == \A i \in 1..Len(c) : c[i].id = i - 1

\* Every predecessor a gate references has a strictly smaller id.
PredecessorsSmaller(c) ==
    \A i \in 1..Len(c) :
        /\ c[i].left # None => c[i].left < c[i].id
        /\ c[i].right # None => c[i].right < c[i].id

\* C15: after any sequence of Circuit::new and add_gate calls, with any
\* arguments, every gate has its position as id and references only
\* predecessors of strictly smaller id.
C15_DagByConstruction ==
    call.stage \in {"built", "ordered", "panicked"} =>
        IdIsPosition(call.gates) /\ PredecessorsSmaller(call.gates)

\* C16: on a circuit that satisfies the DAG invariant topological_order returns
\* (it does not panic), the order holds every wire id of the circuit exactly
\* once, and the left and right predecessors of every gate come before the gate.
C16_TopologicalOrder ==
    (/\ call.stage \in {"ordered", "panicked"}
     /\ IdIsPosition(call.gates)
     /\ PredecessorsSmaller(call.gates)) =>
        LET c == call.gates
            order == call.order
            At(w) == CHOOSE k \in 1..Len(order) : order[k] = w
        IN  /\ call.stage = "ordered"
            /\ Len(order) = Len(c)
            /\ \A w \in 0..(Len(c) - 1) :
                  Cardinality({k \in 1..Len(order) : order[k] = w}) = 1
            /\ \A i \in 1..Len(c) :
                  /\ c[i].left # None => At(c[i].left) < At(c[i].id)
                  /\ c[i].right # None => At(c[i].right) < At(c[i].id)

\* The order of a circuit of MaxGates gates in which the last gate has two
\* different predecessors, one of them with a predecessor of its own.
C16_Witness ==
    /\ call.stage = "ordered"
    /\ Len(call.gates) = MaxGates
    /\ IdIsPosition(call.gates)
    /\ PredecessorsSmaller(call.gates)
    /\ call.gates[MaxGates].left # None
    /\ call.gates[MaxGates].right # None
    /\ call.gates[MaxGates].left # call.gates[MaxGates].right
    /\ \E i \in 1..(MaxGates - 1) : call.gates[i].left # None
    /\ Len(call.order) = MaxGates

\* C17: a step in which party p, in the last loop of eval_mul for wire w, takes
\* the Reshare(w, share at x_p) of another party accepts it, whatever its value:
\* the share is appended to final_shares (or, being the N-th, lets eval_mul
\* store the final share and go on).
C17_OneResharePerOriginator ==
    [][\A p \in Parties : \A q \in Others(p) :
          (/\ pc[p] = "reshare_wait"
           /\ chan[q][p] # <<>>
           /\ chan'[q][p] = Tail(chan[q][p])
           /\ Head(chan[q][p]).kind = "Reshare"
           /\ Head(chan[q][p]).wire = Order[pos[p]]
           /\ Head(chan[q][p]).share.x = FromU64(p + 1))
          => \/ pc'[p] # "reshare_wait"
             \/ final_shares'[p] = Append(final_shares[p], Head(chan[q][p]).share)]_vars

\* Party p's Reshare wait ends in this step without a message taken: the
\* timeout has expired with fewer than N shares collected.
ReshareWaitTimesOut(p) ==
    /\ pc[p] = "reshare_wait"
    /\ Len(final_shares[p]) < N
    /\ chan' = chan
    /\ <<pc[p], shares[p], pos[p], final_shares[p]>>
          # <<pc'[p], shares'[p], pos'[p], final_shares'[p]>>

\* The state of a party whose eval_mul was aborted: terminated with the error,
\* the gate's wire and the wires of all later gates unwritten, no output value.
AbortedAtGate(p) ==
    /\ pc[p] = "panicked"
    /\ pos[p] \in 1..Len(Order)
    /\ GateOf(Gates, Order[pos[p]]).gate_type = "Mul"
    /\ \A i \in pos[p]..Len(Order) : Order[i] \notin DOMAIN shares[p]
    /\ output[p] = EmptyMap

\* C18: if the Reshare wait of eval_mul for wire w times out before N shares are
\* collected, the party terminates with an error in that step, shares[w] is not
\* written, and from then on the party evaluates no later gate and returns no
\* output value.
C18_TimeoutAbortsTheGate ==
    /\ [][\A p \in Parties :
             ReshareWaitTimesOut(p) =>
                /\ pc'[p] = "panicked"
                /\ shares'[p] = shares[p]
                /\ pos'[p] = pos[p]]_vars
    /\ [](\A p \in Parties : pc[p] = "panicked" => AbortedAtGate(p))
    /\ [][\A p \in Parties :
             pc[p] = "panicked" =>
                /\ pc'[p] = "panicked"
                /\ shares'[p] = shares[p]
                /\ output'[p] = output[p]]_vars

\* A party whose Reshare wait timed out: it holds the shares it had before the
\* gate and nothing of the gate, while another party is still in its wait.
C18_Witness ==
    \E p \in Parties :
        /\ AbortedAtGate(p)
        /\ InputWires(Gates) \subseteq DOMAIN shares[p]
        /\ \E q \in Parties : pc[q] = "reshare_wait"

\* Message m is a MulShare tagged with the wire of the gate at hand.
MulShareForWire(m) == m.kind = "MulShare" /\ m.wire = Order[CollectPos]

\* C19: the set of shares a party interpolates the product from has at least
\* 2T + 1 shares of pairwise distinct x: its own local product and shares
\* carried by MulShare messages tagged with the gate's wire.  A MulShare whose x
\* is already held, or with another wire id, is not added, and nothing is
\* opened from fewer shares.
C19_OpenedFromEnoughShares ==
    call.stage \in {"collecting", "opened"} =>
        LET ss == call.shares
        IN  /\ \A i \in 1..Len(ss) : \A j \in 1..Len(ss) : i # j => ss[i].x # ss[j].x
            /\ ss[1] = call.local_product
            /\ \A k \in 2..Len(ss) :
                  \E j \in 1..Len(call.taken) :
                      MulShareForWire(call.taken[j]) /\ call.taken[j].share = ss[k]
            /\ \A j \in 1..Len(call.taken) :
                  (MulShareForWire(call.taken[j]) /\ call.stage = "collecting") =>
                      \E k \in 1..Len(ss) : ss[k].x = call.taken[j].share.x
            /\ call.stage = "opened" =>
                  /\ Len(ss) >= 2 * T + 1
                  /\ call.product_value = shamir_reconstruct(ss)
            /\ call.stage = "collecting" =>
                  /\ Len(ss) < 2 * T + 1
                  /\ call.product_value = None

\* The product has been opened after a MulShare for another wire was taken and
\* left out.
C19_Witness ==
    /\ call.stage = "opened"
    /\ Len(call.shares) = 2 * T + 1
    /\ \E j \in 1..Len(call.taken) :
          /\ call.taken[j].kind = "MulShare"
          /\ call.taken[j].wire # Order[CollectPos]
          /\ \A k \in 1..Len(call.shares) : call.shares[k] # call.taken[j].share

\* C20: in every reachable state of a run of honest parties every share in
\* party p's shares map, on any wire, has x = p + 1, and every InputShare and
\* Reshare on its way to p carries x = p + 1; so the equal-x assertions of
\* eval_add and eval_mul hold wherever they are evaluated (a party that has
\* panicked has done so in eval_mul with operands of equal x).
C20_XCoordinate ==
    \A p \in Parties :
        /\ \A w \in DOMAIN shares[p] : shares[p][w].x = FromU64(p + 1)
        /\ \A q \in Others(p) : \A k \in 1..Len(chan[q][p]) :
              chan[q][p][k].kind \in {"InputShare", "Reshare"}
                  => chan[q][p][k].share.x = FromU64(p + 1)
        /\ pc[p] = "panicked" =>
              LET gate == GateOf(Gates, Order[pos[p]])
              IN  /\ gate.gate_type = "Mul"
                  /\ gate.left \in DOMAIN shares[p]
                  /\ gate.right \in DOMAIN shares[p]
                  /\ shares[p][gate.left].x = shares[p][gate.right].x

\* The last party (x = N) has returned its output with a share on every wire
\* of the circuit: Input, Add, Mul, ConstMul and Output.
C20_Witness ==
    /\ pc[N - 1] = "done"
    /\ DOMAIN shares[N - 1] = {Gates[i].id : i \in 1..Len(Gates)}
    /\ \A t \in GateTypes : \E i \in 1..Len(Gates) : Gates[i].gate_type = t
    /\ shares[N - 1][Order[Len(Order)]].x = FromU64(N)

=============================================================================
